---- MODULE Spec2Model ----
(***************************************************************************)
(* The Jython forwarding example of bitcoinj                               *)
(* (examples/src/main/python/forwarding.py): a wallet listener that, for   *)
(* every coins-received event, registers a callback on the transaction's   *)
(* depth future and, when the future completes, sends the value credited   *)
(* to the wallet minus the reference fee to one fixed address.             *)
(*                                                                         *)
(* The wallet, the block chain, the depth future and the send operation    *)
(* are bitcoinj classes that are not part of the example: they are the     *)
(* environment of the model and follow the collaborator contract of the    *)
(* specification (section 6).                                              *)
(***************************************************************************)
EXTENDS Integers, Sequences, FiniteSets, TLC

(* ------------------------------ bounds --------------------------------- *)

\* Number of distinct transactions the wallet may see.
NumTx == 2

\* Total number of receive-events delivered to the listener.
MaxEvents == 2

\* Largest confirmation depth: of the configuration and of a transaction.
MaxDepth == 1

\* Gross amounts 0..MaxAmount are tried on the amount computation.
MaxAmount == 1100

(* ----------------------------- constants ------------------------------- *)

\* Transaction.REFERENCE_DEFAULT_MIN_TX_FEE, in satoshis (forwarding.py:67).
REFERENCE_DEFAULT_MIN_TX_FEE == 1000

Tx == 1..NumTx

\* Values a transaction may credit to the wallet: below, at and above the fee.
Values == {800, 1000, 10000}

\* Gross amounts given to the amount computation on its own.
Amounts == (0..MaxAmount) \cup Values \cup {5000}

\* A transaction the wallet has not seen credits nothing.
NotSeen == 0

\* The address of my_address_text (line 26, parsed at line 91) and the
\* wallet's own receive address (line 100).
my_address == "my_address"
sendToAddress == "sendToAddress"

\* What a call can end with: a normal return, or a failure of one of the
\* kinds the two except clauses of loud_exceptions tell apart: a Python
\* Exception, a java.lang.Exception, and whatever is neither (a
\* java.lang.Error such as OutOfMemoryError, a Python BaseException such as
\* KeyboardInterrupt).
None == "None"
PyException == "PyException"
JavaException == "JavaException"
OtherThrowable == "OtherThrowable"
Failures == {PyException, JavaException, OtherThrowable}
Outcomes == {None} \cup Failures

VARIABLES
    confirm_wait,   \* the module-level setting (line 31)
    pcMain,         \* position of the main script (lines 89-104)
    listener,       \* sl, the SenderListener of line 102, or NoListener
    subscribed,     \* whether the wallet holds sl (line 103)
    value,          \* value[t]: tx.getValueSentToMe(w)
    conf,           \* conf[t]: confidence depth of t in blocks
    reached,        \* reached[t]: t has at some time been confirm_wait deep
    recv,           \* recv[t]: calls of onCoinsReceived for t
    waiters,        \* waiters[t]: one record per registered callback
    sends,          \* sends[t]: the calls of w.sendCoins made for t
    gross,          \* input of the amount computation taken on its own
    net,            \* its result
    raised,         \* how an action run on its own under the barrier ends
    barrier         \* what the barrier made of it

vars == <<confirm_wait, pcMain, listener, subscribed, value, conf, reached,
          recv, waiters, sends, gross, net, raised, barrier>>

walletVars == <<value, conf, reached>>
listenerVars == <<recv, waiters, sends>>
mainVars == <<pcMain, listener, subscribed>>
policyVars == <<gross, net, raised, barrier>>

NoListener == [peerGroup |-> "none", address |-> "none"]
NoResult == [done |-> FALSE, val |-> 0, exc |-> None]
NotRun == [done |-> FALSE, exc |-> None, out |-> << >>]

\* How w.sendCoins ends: it returns, or fails with an error of the wallet
\* (InsufficientMoneyException, KeyCrypterException, ...), a
\* java.lang.Exception.
SendOutcomes == {None, JavaException}

\* The calls of onCoinsReceived made so far.
Delivered == LET sum[n \in 0..NumTx] == IF n = 0 THEN 0 ELSE sum[n - 1] + recv[n]
             IN  sum[NumTx]

(* ------------------------ the amount computation ----------------------- *)

\* Coin.subtract as forwardCoins uses it (line 67): plain subtraction, with
\* no check of the sign of the result.
amountToSend(v) == [val |-> v - REFERENCE_DEFAULT_MIN_TX_FEE, exc |-> None]

(* --------------------------- the fault barrier ------------------------- *)

\* A call's result: the failure it ended with (None for a normal return) and
\* the records it printed.
Result(exc, out) == [exc |-> exc, out |-> out]

\* The wrapper of loud_exceptions (lines 48-56) around a call that ended as
\* r: a Python Exception and a java.lang.Exception are printed and raised
\* again by the bare `raise`; a failure that matches neither except clause
\* passes through the try statement untouched; a normal return stays one.
loud_exceptions(r) ==
    Result(r.exc,
           IF r.exc = PyException
             THEN Append(r.out, <<"** python exception ", r.exc>>)
           ELSE IF r.exc = JavaException
             THEN Append(r.out, <<"** java exception", r.exc>>)
           ELSE r.out)

(* ------------------------------ the listener --------------------------- *)

\* A variant of lines 73-74 that keeps the wallet's own receive address.
SenderListener_ownAddress(pg, address) ==
    [peerGroup |-> pg, address |-> sendToAddress]

\* SenderListener.__init__ (lines 71-74).
SenderListener(pg, address) == [peerGroup |-> pg, address |-> address]

\* Variants of line 87 that ask for a depth one off the setting.
DepthArg_less == confirm_wait - 1

DepthArg_more == confirm_wait + 1

\* The depth handed to getDepthFuture (line 87).
DepthArg == confirm_wait

\* TransactionConfidence.getDepthFuture(depth), as the collaborator contract
\* gives it: a future that is complete on creation when the transaction is
\* already that deep (always so for depth 0), and pending otherwise.
getDepthFuture(t, depth) == IF conf[t] >= depth THEN "fired" ELSE "pending"

\* A variant of forwardCoins that sends a second time.
forwardCoins_twice(t, pg, addr) ==
    LET call == [tx |-> t,
                 amount |-> value[t] - REFERENCE_DEFAULT_MIN_TX_FEE,
                 addr |-> addr, pg |-> pg]
    IN  << call, call >>

\* A variant of forwardCoins that sends the value read when the event was
\* received (line 79) instead of reading it again.
forwardCoins_stale(t, pg, addr) ==
    LET v == waiters[t][Len(waiters[t])].v
        amount == amountToSend(v)
    IN  << [tx |-> t, amount |-> amount.val, addr |-> addr, pg |-> pg] >>

\* forwardCoins (lines 65-68): the calls of w.sendCoins it makes. The value
\* is read when forwardCoins runs; a failure of the subtraction would leave
\* line 68 unreached.
forwardCoins(t, pg, addr) ==
    LET v == value[t]
        amount == amountToSend(v)
    IN  IF amount.exc = None
          THEN << [tx |-> t, amount |-> amount.val, addr |-> addr, pg |-> pg] >>
          ELSE << >>

\* A variant of onCoinsReceived that waits for the depth itself and forwards
\* before it returns.
onCoinsReceived_sendsNow(t, valueNow, stNow) ==
    /\ recv' = [recv EXCEPT ![t] = @ + 1]
    /\ waiters' = [waiters EXCEPT ![t] =
           Append(@, [st |-> "forwarded", depth |-> DepthArg, v |-> valueNow,
                      exc |-> None, out |-> << >>])]
    /\ sends' = [sends EXCEPT ![t] =
           @ \o forwardCoins(t, listener.peerGroup, listener.address)]

\* onCoinsReceived (lines 77-87): reads the credited value (line 79, not used
\* again) and adds a new callback to a new depth future of the transaction.
onCoinsReceived(t, valueNow, stNow) ==
    /\ recv' = [recv EXCEPT ![t] = @ + 1]
    /\ waiters' = [waiters EXCEPT ![t] =
           Append(@, [st |-> stNow, depth |-> DepthArg, v |-> valueNow,
                      exc |-> None, out |-> << >>])]
    /\ UNCHANGED sends

\* A variant in which a failure that leaves one callback takes every other
\* callback whose future is complete down with it.
Completed_all(ws, t, i, r) ==
    [u \in Tx |-> [j \in 1..Len(ws[u]) |->
        IF u = t /\ j = i
          THEN [ws[u][j] EXCEPT !.st = IF r.exc = None THEN "forwarded" ELSE "failed",
                                !.exc = r.exc, !.out = r.out]
        ELSE IF r.exc # None /\ ws[u][j].st = "fired"
          THEN [ws[u][j] EXCEPT !.st = "failed", !.exc = r.exc]
        ELSE ws[u][j]]]

\* A variant in which a callback that ends while its transaction is below
\* the depth (reorganized out) waits for the depth once more.
Completed_rearm(ws, t, i, r) ==
    [ws EXCEPT ![t][i] =
        [@ EXCEPT !.st = IF conf[t] < ws[t][i].depth THEN "pending"
                         ELSE IF r.exc = None THEN "forwarded" ELSE "failed",
                  !.exc = r.exc,
                  !.out = r.out]]

\* A variant in which the callback that runs uses up the signal of every
\* other registration of the same transaction.
Completed_sameTx(ws, t, i, r) ==
    [ws EXCEPT ![t] = [j \in 1..Len(@) |->
        IF j = i \/ @[j].st = "fired"
          THEN [@[j] EXCEPT !.st = IF r.exc = None THEN "forwarded" ELSE "failed",
                            !.exc = r.exc, !.out = r.out]
          ELSE @[j]]]

\* What the end r of onSuccess leaves of the registrations ws: the callback
\* of t's i-th registration has run, FORWARDED on a normal return and FAILED
\* on a failure; every other registration is as it was (each call of
\* onCoinsReceived makes a callback object of its own, lines 81-87).
Completed(ws, t, i, r) ==
    [ws EXCEPT ![t][i] =
        [@ EXCEPT !.st = IF r.exc = None THEN "forwarded" ELSE "failed",
                  !.exc = r.exc,
                  !.out = r.out]]

\* A variant of onSuccess that runs only when no other transaction is still
\* waiting for its depth.
OnSuccess_afterOthers(t, i) ==
    /\ i \in 1..Len(waiters[t])
    /\ waiters[t][i].st = "fired"
    /\ \A u \in Tx \ {t} : \A j \in 1..Len(waiters[u]) : waiters[u][j].st # "pending"
    /\ \E k \in SendOutcomes :
         LET calls == forwardCoins(t, listener.peerGroup, listener.address)
             body == Result(IF calls = << >> THEN amountToSend(value[t]).exc ELSE k,
                            << >>)
             r == loud_exceptions(loud_exceptions(body))
         IN  /\ sends' = [sends EXCEPT ![t] = @ \o calls]
             /\ waiters' = Completed(waiters, t, i, r)
    /\ UNCHANGED <<confirm_wait, recv>>
    /\ UNCHANGED <<mainVars, walletVars, policyVars>>

\* myFutureCallback.onSuccess (lines 82-84) of the i-th callback registered
\* for t, run once its future is complete: forwardCoins inside its barrier,
\* inside the barrier of onSuccess. k is how w.sendCoins ends. The callback
\* touches no state another callback writes, so it is one step.
OnSuccess(t, i) ==
    /\ i \in 1..Len(waiters[t])
    /\ waiters[t][i].st = "fired"
    /\ \E k \in SendOutcomes :
         LET calls == forwardCoins(t, listener.peerGroup, listener.address)
             body == Result(IF calls = << >> THEN amountToSend(value[t]).exc ELSE k,
                            << >>)
             r == loud_exceptions(loud_exceptions(body))
         IN  /\ sends' = [sends EXCEPT ![t] = @ \o calls]
             /\ waiters' = Completed(waiters, t, i, r)
    /\ UNCHANGED <<confirm_wait, recv>>
    /\ UNCHANGED <<mainVars, walletVars, policyVars>>

(* ------------------------- the wallet and the chain -------------------- *)

\* The wallet sees t (again) and fires its coins-received event, which
\* reaches onCoinsReceived only when the listener has been added.
WalletReceive(t) ==
    /\ pcMain # "start"
    /\ subscribed => Delivered < MaxEvents
    /\ \E v \in (IF value[t] = NotSeen THEN Values ELSE {value[t]}) :
         /\ value' = [value EXCEPT ![t] = v]
         /\ IF subscribed
              THEN onCoinsReceived(t, v, getDepthFuture(t, DepthArg))
              ELSE UNCHANGED listenerVars
    /\ UNCHANGED <<confirm_wait, conf, reached>>
    /\ UNCHANGED <<mainVars, policyVars>>

\* A block is added on top of t: t is one block deeper, and every pending
\* future of t whose depth is reached completes. A complete future stays so.
Confirm(t) ==
    /\ value[t] # NotSeen
    /\ conf[t] < MaxDepth
    /\ conf' = [conf EXCEPT ![t] = @ + 1]
    /\ reached' = [reached EXCEPT ![t] = @ \/ conf[t] + 1 >= confirm_wait]
    /\ waiters' = [waiters EXCEPT ![t] =
           [i \in 1..Len(@) |->
               IF @[i].st = "pending" /\ conf[t] + 1 >= @[i].depth
                 THEN [@[i] EXCEPT !.st = "fired"]
                 ELSE @[i]]]
    /\ UNCHANGED <<confirm_wait, value, recv, sends>>
    /\ UNCHANGED <<mainVars, policyVars>>

\* A reorganization takes t out of the best chain.
Reorg(t) ==
    /\ conf[t] > 0
    /\ conf' = [conf EXCEPT ![t] = 0]
    /\ UNCHANGED <<confirm_wait, value, reached>>
    /\ UNCHANGED <<mainVars, listenerVars, policyVars>>

\* The value t credits to the wallet changes between two reads of
\* getValueSentToMe: the wallet's view of which outputs are its own is not
\* fixed at receipt.
ValueChange(t) ==
    /\ value[t] # NotSeen
    /\ \E v \in Values \ {value[t]} : value' = [value EXCEPT ![t] = v]
    /\ UNCHANGED <<confirm_wait, conf, reached>>
    /\ UNCHANGED <<mainVars, listenerVars, policyVars>>

(* ----------------------------- the main script ------------------------- *)

\* A variant of the main script that adds the listener before the kit has
\* reported running.
StartKit_subscribes ==
    /\ pcMain = "start"
    /\ pcMain' = "running"
    /\ listener' = SenderListener("pg", my_address)
    /\ subscribed' = TRUE
    /\ UNCHANGED confirm_wait
    /\ UNCHANGED <<walletVars, listenerVars, policyVars>>

\* Lines 90-100: the kit is created, started and awaited; the wallet exists.
StartKit ==
    /\ pcMain = "start"
    /\ pcMain' = "running"
    /\ UNCHANGED <<confirm_wait, listener, subscribed>>
    /\ UNCHANGED <<walletVars, listenerVars, policyVars>>

\* Lines 102-103: the listener is built for my_address and added.
AddEventListener ==
    /\ pcMain = "running"
    /\ pcMain' = "listening"
    /\ listener' = SenderListener("pg", my_address)
    /\ subscribed' = TRUE
    /\ UNCHANGED confirm_wait
    /\ UNCHANGED <<walletVars, listenerVars, policyVars>>

(* ---------------------------- specifications --------------------------- *)

\* The state before line 90 runs: no wallet, no listener, nothing received.
\* confirm_wait is set by editing line 31 before the script is run.
Idle ==
    /\ confirm_wait \in 0..MaxDepth
    /\ pcMain = "start"
    /\ listener = NoListener
    /\ subscribed = FALSE
    /\ value = [t \in Tx |-> NotSeen]
    /\ conf = [t \in Tx |-> 0]
    /\ reached = [t \in Tx |-> confirm_wait = 0]
    /\ recv = [t \in Tx |-> 0]
    /\ waiters = [t \in Tx |-> << >>]
    /\ sends = [t \in Tx |-> << >>]

Init ==
    /\ Idle
    /\ gross = 0
    /\ net = NoResult
    /\ raised = None
    /\ barrier = NotRun

\* Some callback whose future is complete runs.
RunCallback == \E t \in Tx : \E i \in 1..MaxEvents : OnSuccess(t, i)

Next ==
    \/ StartKit
    \/ AddEventListener
    \/ \E t \in Tx : WalletReceive(t)
    \/ \E t \in Tx : Confirm(t)
    \/ \E t \in Tx : Reorg(t)
    \/ RunCallback

Spec == Init /\ [][Next]_vars

\* A callback added to a complete future is run: Futures.addCallback hands it
\* to the future's executor (line 87).
FairSpec == Spec /\ WF_vars(RunCallback)

\* The program beside a wallet whose credited values may change.
ChangeNext ==
    \/ Next
    \/ \E t \in Tx : ValueChange(t)

ChangeSpec == Init /\ [][ChangeNext]_vars

\* The amount computation and the barrier, each on its own: an input, then
\* its result.
PolicyInit ==
    /\ Idle
    /\ confirm_wait = 1
    /\ gross \in Amounts
    /\ net = NoResult
    /\ raised \in Outcomes
    /\ barrier = NotRun

Compute ==
    /\ ~net.done
    /\ LET a == amountToSend(gross)
       IN  net' = [done |-> TRUE, val |-> a.val, exc |-> a.exc]
    /\ UNCHANGED <<confirm_wait, gross, raised, barrier>>
    /\ UNCHANGED <<mainVars, walletVars, listenerVars>>

\* A function wrapped by loud_exceptions is called and ends as `raised`.
RunBarrier ==
    /\ ~barrier.done
    /\ LET r == loud_exceptions(Result(raised, << >>))
       IN  barrier' = [done |-> TRUE, exc |-> r.exc, out |-> r.out]
    /\ UNCHANGED <<confirm_wait, gross, net, raised>>
    /\ UNCHANGED <<mainVars, walletVars, listenerVars>>

PolicyNext == Compute \/ RunBarrier

PolicySpec == PolicyInit /\ [][PolicyNext]_vars

(* ------------------------------- the claims ---------------------------- *)

\* The callbacks of t whose onSuccess has run.
Ran(t) == {i \in 1..Len(waiters[t]) : waiters[t][i].st \in {"forwarded", "failed"}}

\* C1. Exactly-once forwarding: a transaction with a single receive-event
\* never has more than one send; once its callback has returned normally it
\* has exactly one; and once its depth future is complete a send for it is
\* eventually submitted, whatever the other transactions do.
ExactlyOnceForwarding ==
    \A t \in Tx :
        /\ [](recv[t] = 1 => Len(sends[t]) <= 1)
        /\ [](recv[t] = 1 /\ waiters[t][1].st = "forwarded" => Len(sends[t]) = 1)
        /\ (recv[t] = 1 /\ waiters[t][1].st = "fired") ~> (Len(sends[t]) >= 1)

\* C1 witness: a transaction received once and forwarded with one send,
\* beside another transaction that was received too.
ForwardedOnceBesideAnother ==
    \E t \in Tx : \E u \in Tx \ {t} :
        /\ recv[t] = 1 /\ recv[u] = 1
        /\ waiters[t][1].st = "forwarded"
        /\ Len(sends[t]) = 1

\* C2. Idempotence under duplicate receive-events: no transaction ever has
\* more than one send, however often its receive-event is delivered.
AtMostOneSendPerTransaction ==
    \A t \in Tx : Len(sends[t]) <= 1

\* C3. Confirmation gating: with a configured depth of at least 1, no
\* callback has run and no send has been submitted for a transaction that
\* has not yet recorded that many confirmations.
ConfirmationGating ==
    confirm_wait >= 1 =>
        \A t \in Tx : (Ran(t) # {} \/ sends[t] # << >>) => reached[t]

\* C3 witness: a send made at depth 1 for a transaction that a
\* reorganization has since taken back to no confirmation.
GatedSendThenReorg ==
    /\ confirm_wait >= 1
    /\ \E t \in Tx : sends[t] # << >> /\ conf[t] = 0 /\ reached[t]

\* C4. Every submitted send carries the credited value minus the fee, and
\* that amount is positive.
SendsArePositiveNetAmounts ==
    \A t \in Tx : \A k \in 1..Len(sends[t]) :
        /\ sends[t][k].amount = value[t] - REFERENCE_DEFAULT_MIN_TX_FEE
        /\ sends[t][k].amount > 0

InsufficientFundsError == "InsufficientFundsError"

\* C5. The amount computation returns gross - fee when gross > fee and
\* fails with InsufficientFundsError, with no amount, when gross <= fee.
PolicyResult ==
    net.done =>
        IF gross > REFERENCE_DEFAULT_MIN_TX_FEE
          THEN net.exc = None /\ net.val = gross - REFERENCE_DEFAULT_MIN_TX_FEE
          ELSE net.exc = InsufficientFundsError

\* C6. Log-then-rethrow: whenever the wrapped action fails, the same failure
\* leaves the barrier, and the barrier has printed a record of it.
BarrierLogsThenRethrows ==
    (barrier.done /\ raised \in Failures) =>
        /\ barrier.exc = raised
        /\ \E k \in 1..Len(barrier.out) : barrier.out[k][2] = raised

\* C7. Fault isolation: a failed send is logged, every callback that has run
\* has submitted its send, and once the send of a transaction has failed, a
\* callback of any other transaction whose depth is reached still runs.
FaultIsolation ==
    \A a \in Tx : \A b \in Tx \ {a} :
        /\ [](\A i \in 1..Len(waiters[a]) :
                waiters[a][i].st = "failed" => waiters[a][i].out # << >>)
        /\ [](Len(sends[b]) = Cardinality(Ran(b)))
        /\ \A j \in 1..MaxEvents :
             ( /\ \E i \in 1..Len(waiters[a]) : waiters[a][i].st = "failed"
               /\ j <= Len(waiters[b])
               /\ waiters[b][j].st = "fired" )
             ~> (j \in Ran(b))

\* C7 witness: at a depth of at least 1, the send of one transaction has
\* failed and been logged, and another transaction has been forwarded.
FailedBesideForwarded ==
    /\ confirm_wait >= 1
    /\ \E a \in Tx : \E b \in Tx \ {a} :
        /\ recv[a] = 1 /\ waiters[a][1].st = "failed" /\ waiters[a][1].out # << >>
        /\ recv[b] = 1 /\ waiters[b][1].st = "forwarded" /\ Len(sends[b]) = 1

\* C8. Zero depth: with a configured depth of 0 no registration is ever left
\* waiting; its signal has fired by the time onCoinsReceived returns,
\* whatever the depth of the transaction.
ZeroDepthFiresOnRegistration ==
    confirm_wait = 0 =>
        \A t \in Tx : \A i \in 1..Len(waiters[t]) : waiters[t][i].st # "pending"

\* C8 witness: at depth 0, a transaction with no confirmation has been
\* forwarded.
ForwardedUnconfirmed ==
    /\ confirm_wait = 0
    /\ \E t \in Tx : conf[t] = 0 /\ recv[t] >= 1 /\ sends[t] # << >>

\* C9. Fixed destination: once built, the listener holds my_address, every
\* send goes there, and a transaction crediting 10,000 and received once at
\* depth 1 gets one send of 9,000 to it.
FixedDestination ==
    /\ pcMain = "listening" => listener.address = my_address
    /\ \A t \in Tx : \A k \in 1..Len(sends[t]) : sends[t][k].addr = my_address
    /\ \A t \in Tx :
         (confirm_wait = 1 /\ value[t] = 10000 /\ recv[t] = 1 /\ Ran(t) # {})
            => /\ Len(sends[t]) = 1
               /\ sends[t][1].amount = 9000
               /\ sends[t][1].addr = my_address

\* C9 witness: the end-to-end scenario has run.
EndToEndForwarded ==
    /\ confirm_wait = 1
    /\ \E t \in Tx :
         /\ value[t] = 10000 /\ recv[t] = 1
         /\ waiters[t][1].st = "forwarded"
         /\ sends[t] = << [tx |-> t, amount |-> 9000, addr |-> my_address,
                           pg |-> "pg"] >>

\* The callbacks of t that have returned normally, and those that failed.
Forwarded(t) == {i \in 1..Len(waiters[t]) : waiters[t][i].st = "forwarded"}
Failed(t) == {i \in 1..Len(waiters[t]) : waiters[t][i].st = "failed"}

\* The steps one registration may take: it waits, its signal fires, its
\* callback ends FORWARDED or FAILED, and there it stays.
LegalStep(old, new) ==
    \/ new = old
    \/ old.st = "pending" /\ new.st = "fired"
    \/ old.st = "fired" /\ new.st \in {"forwarded", "failed"}

\* C12. Per-transaction state machine with no retry: every registration
\* moves only from waiting to FORWARDED or FAILED, a transaction is never
\* both FORWARDED and FAILED, and once a callback of a transaction has ended
\* no further send is attempted for that transaction.
TerminalNoRetry ==
    [][\A t \in Tx :
         /\ \A i \in 1..Len(waiters[t]) : LegalStep(waiters[t][i], waiters'[t][i])
         /\ Ran(t) # {} => sends'[t] = sends[t]
         /\ ~(Forwarded(t)' # {} /\ Failed(t)' # {})]_vars

\* The registration the call of onCoinsReceived made in this step added.
NewWaiter(t) == waiters'[t][Len(waiters'[t])]

\* onCoinsReceived has returned for t in this step: one more registration,
\* at the configured depth, and the earlier ones as they were.
Registered(t) ==
    /\ Len(waiters'[t]) = Len(waiters[t]) + 1
    /\ NewWaiter(t).depth = confirm_wait
    /\ \A i \in 1..Len(waiters[t]) : waiters'[t][i] = waiters[t][i]

\* C13 as stated. Registration within the callback, without waiting:
\* whenever onCoinsReceived returns for a transaction, a waiter at the
\* configured depth has been registered, and for a depth of at least 1 the
\* transaction is then awaiting confirmation with no send submitted.
RegistrationLeavesAwaiting ==
    [][\A t \in Tx : recv'[t] = recv[t] + 1 =>
         /\ Registered(t)
         /\ confirm_wait >= 1 =>
              NewWaiter(t).st = "pending" /\ sends'[t] = << >>]_vars

\* C13 amended. Whenever onCoinsReceived returns for a transaction, a waiter
\* at the configured depth has been registered; when the transaction is not
\* yet that deep, the registration is awaiting confirmation and the call has
\* submitted no send; when it is already that deep, the signal has fired.
RegistrationWithoutWaiting ==
    [][\A t \in Tx : recv'[t] = recv[t] + 1 =>
         /\ Registered(t)
         /\ conf[t] < confirm_wait =>
              NewWaiter(t).st = "pending" /\ sends' = sends
         /\ conf[t] >= confirm_wait => NewWaiter(t).st = "fired"]_vars

\* C13 witness: at a depth of at least 1, a transaction that is not yet that
\* deep has been received and awaits confirmation, with no send.
RegisteredAwaiting ==
    /\ confirm_wait >= 1
    /\ \E t \in Tx :
         /\ recv[t] = 1 /\ conf[t] < confirm_wait /\ ~reached[t]
         /\ waiters[t][1].st = "pending" /\ waiters[t][1].depth = confirm_wait
         /\ sends[t] = << >>

\* C14. Single-fire signal under reorganization: the callback of a
\* registration runs once, with one send; a registration whose signal has
\* fired never waits again, and one whose callback has run never changes
\* again, whatever the confirmation count of its transaction does later.
SingleFireUnderReorg ==
    /\ [](\A t \in Tx : Len(sends[t]) = Cardinality(Ran(t)))
    /\ [][\A t \in Tx : \A i \in 1..Len(waiters[t]) :
            /\ i \in Ran(t) => waiters'[t][i] = waiters[t][i]
            /\ waiters[t][i].st = "fired" => waiters'[t][i].st # "pending"
            /\ (conf'[t] # conf[t] /\ waiters[t][i].st # "pending")
                  => sends'[t] = sends[t]]_vars

\* C14 witness: a transaction received once was forwarded at a depth of at
\* least 1 and has since been reorganized out; it has its one send.
ForwardedThenReorganized ==
    /\ confirm_wait >= 1
    /\ \E t \in Tx :
         /\ recv[t] = 1 /\ waiters[t][1].st = "forwarded"
         /\ conf[t] < confirm_wait /\ reached[t]
         /\ Len(sends[t]) = 1

\* C15. A pending transaction never blocks another: while a transaction is
\* awaiting confirmation, every callback of another transaction whose signal
\* has fired can run, and a receive-event of another transaction can be
\* delivered and registered.
PendingNeverBlocks ==
    \A a \in Tx : \A b \in Tx \ {a} :
        (\E i \in 1..Len(waiters[a]) : waiters[a][i].st = "pending") =>
            /\ \A j \in 1..Len(waiters[b]) :
                  waiters[b][j].st = "fired" => ENABLED OnSuccess(b, j)
            /\ (subscribed /\ Delivered < MaxEvents) => ENABLED WalletReceive(b)

\* C15 witness: a transaction is still awaiting confirmation while another
\* one has been received, confirmed and forwarded.
ForwardedBesidePending ==
    /\ confirm_wait >= 1
    /\ \E a \in Tx : \E b \in Tx \ {a} :
         /\ recv[a] = 1 /\ waiters[a][1].st = "pending" /\ sends[a] = << >>
         /\ recv[b] = 1 /\ waiters[b][1].st = "forwarded" /\ Len(sends[b]) = 1

\* C16. Independent waiters on one transaction: no registration is left
\* waiting once its transaction is at its depth, the callback of one
\* registration leaves every other registration of the transaction as it
\* was, and each callback that runs adds one send of its own.
IndependentWaiters ==
    /\ [](\A t \in Tx : \A i \in 1..Len(waiters[t]) :
            waiters[t][i].st = "pending" => conf[t] < waiters[t][i].depth)
    /\ [][\A t \in Tx : \A i \in 1..Len(waiters[t]) :
            (waiters[t][i].st = "fired" /\ waiters'[t][i].st # "fired") =>
                /\ \A j \in 1..Len(waiters[t]) \ {i} : waiters'[t][j] = waiters[t][j]
                /\ Len(sends'[t]) = Len(sends[t]) + 1]_vars

\* C16 witness: of two registrations of one transaction at a depth of at
\* least 1, the callback of one has run and forwarded, and the signal of
\* the other is still there for it.
OneRanOtherStillFired ==
    /\ confirm_wait >= 1
    /\ \E t \in Tx : \E i, j \in 1..Len(waiters[t]) :
         /\ waiters[t][i].st = "forwarded"
         /\ waiters[t][j].st = "fired"
         /\ Len(sends[t]) = 1

\* C17. No forward without a receive: a transaction has one registration
\* per receive-event delivered to the listener, and no more sends than
\* registrations whose signal has fired, so never more sends than
\* receive-events and no send without a receive-event and a registration.
NoForwardWithoutReceive ==
    \A t \in Tx :
        /\ Len(waiters[t]) = recv[t]
        /\ Len(sends[t]) <=
              Cardinality({i \in 1..Len(waiters[t]) : waiters[t][i].st # "pending"})
        /\ Len(sends[t]) <= recv[t]
        /\ sends[t] # << >> => recv[t] >= 1 /\ waiters[t] # << >>

\* C17 witness: a transaction has as many sends as receive-events, more
\* than one, while another transaction that was seen has neither.
SendsMatchReceives ==
    \E t \in Tx : \E u \in Tx \ {t} :
        /\ recv[t] >= 2 /\ Len(sends[t]) = recv[t]
        /\ value[u] # NotSeen /\ recv[u] = 0 /\ sends[u] = << >>

\* C18. The amount is read at forwarding time: the send a callback makes
\* carries the value credited when the callback runs, minus the fee, not
\* the value read at receipt; when the two values are the same the amount
\* is the value at receipt minus the fee.
AmountReadAtForwarding ==
    [][\A t \in Tx : \A i \in 1..Len(waiters[t]) :
         (waiters[t][i].st = "fired" /\ waiters'[t][i].st # "fired") =>
            LET sent == sends'[t][Len(sends'[t])]
            IN  /\ Len(sends'[t]) = Len(sends[t]) + 1
                /\ sent.amount = value[t] - REFERENCE_DEFAULT_MIN_TX_FEE
                /\ waiters[t][i].v = value[t] =>
                      sent.amount = waiters[t][i].v - REFERENCE_DEFAULT_MIN_TX_FEE]_vars

\* C18 witness: a transaction received once has been forwarded with the
\* value it credits now, which is not the value it credited at receipt.
SentLaterValue ==
    \E t \in Tx :
        /\ recv[t] = 1 /\ waiters[t][1].st = "forwarded" /\ Len(sends[t]) = 1
        /\ waiters[t][1].v # value[t]
        /\ sends[t][1].amount = value[t] - REFERENCE_DEFAULT_MIN_TX_FEE
        /\ sends[t][1].amount # waiters[t][1].v - REFERENCE_DEFAULT_MIN_TX_FEE

\* C19. Only events delivered while subscribed are forwarded: the listener
\* is subscribed only once the kit is running and the script has reached
\* addEventListener; an event the wallet fires before that registers
\* nothing and sends nothing, and a transaction with no event delivered to
\* the listener has no waiter and no send.
OnlySubscribedEventsForwarded ==
    /\ [](subscribed => pcMain = "listening")
    /\ [](\A t \in Tx : (~subscribed \/ recv[t] = 0) =>
            recv[t] = 0 /\ waiters[t] = << >> /\ sends[t] = << >>)
    /\ [][\A t \in Tx : (~subscribed /\ value'[t] # value[t]) =>
            UNCHANGED listenerVars]_vars

\* C19 witness: a transaction seen by the wallet before the listener was
\* added has reached the depth with no waiter and no send, while a
\* transaction received after the listener was added has been forwarded.
MissedBesideForwarded ==
    /\ pcMain = "listening" /\ confirm_wait >= 1
    /\ \E t \in Tx : \E u \in Tx \ {t} :
         /\ value[t] # NotSeen /\ conf[t] >= confirm_wait
         /\ recv[t] = 0 /\ waiters[t] = << >> /\ sends[t] = << >>
         /\ recv[u] = 1 /\ waiters[u][1].st = "forwarded" /\ Len(sends[u]) = 1

====
